---- MODULE Spec2Model ----
(***************************************************************************)
(* Room/session relay of src/server.js (socket.io part, lines 103-136).    *)
(*                                                                         *)
(* The relay keeps one table, `rooms`, from room id to the list of member  *)
(* connection ids.  Every handler (join-room, signal, disconnect) is one   *)
(* atomic step of the single-threaded event loop.  The socket.io server    *)
(* keeps its own room sets (the adapter): every socket is put in the room  *)
(* named by its own id when it connects, socket.join(roomId) adds it to    *)
(* the room roomId, and a closing socket leaves every room before its      *)
(* 'disconnect' listeners run.  Broadcasts (socket.to(r).emit, io.to(r).   *)
(* emit) go to the adapter's room r, never to the `rooms` table.           *)
(*                                                                         *)
(* The two HTTP endpoints (lines 28-101 and 139-168) share no state with   *)
(* the relay or with each other; they are modelled by one request record,  *)
(* `http`, stepped at the awaits of its handler, under HttpSpec.           *)
(***************************************************************************)
EXTENDS Integers, Sequences, FiniteSets, TLC

\* Connection identities (socket.id), named in the order the server assigns
\* them: a fresh identity per connection, never reused.
ConnOrder == <<"c1", "c2", "c3">>

ConnIds == {ConnOrder[i] : i \in DOMAIN ConnOrder}

\* Room names chosen by clients that are not connection identities.
RoomNames == {"r1", "r2"}

\* A room id is any client-supplied string.  The payloads of join-room are
\* drawn from the plain names and the text of one connection identity.
RoomIds == RoomNames \cup {ConnOrder[1]}

\* Names of the rooms socket.io can hold: joined room ids and socket ids.
AdapterRooms == RoomNames \cup ConnIds

\* A target value that names no connection and no room.
NoTarget == "none"

\* data.target of a signal event: any value.
Targets == AdapterRooms \cup {NoTarget}

\* Opaque signal payloads.
Payloads == {"offer", "answer"}

\* Bound on the number of join-room events handled in one run.
MaxJoins == 3

VARIABLES
    status,    \* status[c]: "new" (not yet connected), "live", "gone"
    rooms,     \* the Room Table: room id -> list of connection ids
    adapter,   \* socket.io's room sets: room id -> set of connections
    handlers,  \* handlers[c]: room ids of the join-room events handled for c,
               \* one 'disconnect' and one 'signal' listener per entry
    joinLog,   \* joinLog[r]: connections in the order their join-room(r) ran
    last,      \* the event handled by the last step
    sent,      \* the emits of the last step, in order
    threw,     \* TRUE once a handler has raised an exception; nothing in
               \* server.js catches it, so no further event is handled
    http       \* the HTTP request being served and what it has done so far

vars == <<status, rooms, adapter, handlers, joinLog, last, sent, threw, http>>

\* The state of the relay, left alone by the HTTP endpoints.
relayVars == <<status, rooms, adapter, handlers, joinLog, last, sent, threw>>

NoEvent == [op |-> "none", conn |-> "-", room |-> "-", target |-> "-", signal |-> "-"]

\* One emit call: the event name, the identity it carries, the payload, the
\* adapter room it is addressed to and the connections that receive it.
Emit(ev, id, sig, via, to) ==
    [ev |-> ev, id |-> id, signal |-> sig, via |-> via, to |-> to]

\* Array.prototype.filter((id) => id !== c)
RECURSIVE Without(_, _)
Without(list, c) ==
    IF list = <<>> THEN <<>>
    ELSE IF Head(list) = c THEN Without(Tail(list), c)
         ELSE <<Head(list)>> \o Without(Tail(list), c)

\* A delete that drops the whole table (rooms = {}) instead of one key.
DeleteAll(rs, r) == [x \in {} |-> <<>>]

\* delete rooms[r]
Delete(rs, r) == [x \in (DOMAIN rs) \ {r} |-> rs[x]]

\* rooms[r] = list
Store(rs, r, list) == [x \in (DOMAIN rs) \cup {r} |-> IF x = r THEN list ELSE rs[x]]

\* A join that puts the new member first (unshift instead of push).
JoinRoomFront(rs, r, c) ==
    Store(rs, r, <<c>> \o (IF r \in DOMAIN rs THEN rs[r] ELSE <<>>))

\* A join guarded against duplicates (push only when not yet a member).
JoinRoomOnce(rs, r, c) ==
    IF r \in DOMAIN rs /\ \E i \in DOMAIN rs[r] : rs[r][i] = c THEN rs
    ELSE Store(rs, r, Append(IF r \in DOMAIN rs THEN rs[r] ELSE <<>>, c))

\* if (!rooms[roomId]) rooms[roomId] = []; rooms[roomId].push(socket.id)
JoinRoom(rs, r, c) ==
    Store(rs, r, Append(IF r \in DOMAIN rs THEN rs[r] ELSE <<>>, c))

\* A leave that forgets to delete the room it has emptied.
LeaveRoomKeepEmpty(rs, r, c) ==
    Store(rs, r, Without(rs[r], c))

\* rooms[roomId] = rooms[roomId].filter(...); if (length === 0) delete rooms[roomId]
LeaveRoom(rs, r, c) ==
    IF Without(rs[r], c) = <<>> THEN Delete(rs, r)
    ELSE Store(rs, r, Without(rs[r], c))

\* socket.to(r).emit / io.to(r).emit: the sockets of the adapter's room r,
\* minus the excluded ones.
Receivers(ad, r, except) ==
    IF r \in DOMAIN ad THEN ad[r] \ except ELSE {}

(***************************************************************************)
(* HTTP endpoints: values.                                                 *)
(***************************************************************************)
\* A body field that is absent from the JSON payload.
Undefined == "<undefined>"

\* req.body.text / req.body.conversationText
Texts == {Undefined, "", "Hola", "Hello"}

\* req.body.targetLanguage
Languages == {Undefined, "", "es", "en"}

\* !x for the values above: undefined and the empty string are falsy.
Falsy(x) == x \in {Undefined, ""}

\* retryRequest's default arguments.
DefaultRetries == 3

DefaultDelay == 1000

\* HTTP status of an upstream answer; NoResponse stands for a failure with no
\* response at all (error.response undefined).
NoResponse == 0

UpstreamStatuses == {200, 429, 500, NoResponse}

\* choices[0].message.content of a completion, as lists of characters.
Contents == {<<"o", "k">>, <<" ", "o", "k", " ">>}

\* String.prototype.trim on a list of characters.
RECURSIVE TrimLeft(_)
TrimLeft(str) ==
    IF str # <<>> /\ Head(str) = " " THEN TrimLeft(Tail(str)) ELSE str

RECURSIVE TrimRight(_)
TrimRight(str) ==
    IF str # <<>> /\ str[Len(str)] = " "
    THEN TrimRight(SubSeq(str, 1, Len(str) - 1)) ELSE str

Trim(str) == TrimRight(TrimLeft(str))

\* An upstream call: the endpoint and the fields of the posted body.
Call(url, q, source, target) ==
    [url |-> url, q |-> q, source |-> source, target |-> target]

\* An answer sent with res.status(..).json(..) / res.json(..).
Response(st, detected, translated, message, summary, error) ==
    [status |-> st, detectedLanguage |-> detected, translatedText |-> translated,
     message |-> message, summary |-> summary, error |-> error]

HttpIdle ==
    [route |-> "none", pc |-> "idle", text |-> Undefined, lang |-> Undefined,
     retries |-> 0, delay |-> 0, detected |-> "-", body |-> "-",
     calls |-> <<>>, outcomes |-> <<>>, waits |-> <<>>, replies |-> <<>>]

Init ==
    /\ status = [c \in ConnIds |-> "new"]
    /\ rooms = [r \in {} |-> <<>>]
    /\ adapter = [r \in AdapterRooms |-> {}]
    /\ handlers = [c \in ConnIds |-> <<>>]
    /\ joinLog = [r \in RoomIds |-> <<>>]
    /\ last = NoEvent
    /\ sent = <<>>
    /\ threw = FALSE
    /\ http = HttpIdle

\* io.on('connection'): socket.io gives the socket its id and puts it in the
\* room named by that id; the relay only logs.
Connect(c) ==
    /\ ~threw
    /\ status[c] = "new"
    /\ \A i, j \in DOMAIN ConnOrder : (i < j /\ ConnOrder[j] = c) => status[ConnOrder[i]] # "new"
    /\ status' = [status EXCEPT ![c] = "live"]
    /\ adapter' = [adapter EXCEPT ![c] = @ \cup {c}]
    /\ last' = [NoEvent EXCEPT !.op = "connect", !.conn = c]
    /\ sent' = <<>>
    /\ UNCHANGED <<rooms, handlers, joinLog, threw, http>>

\* Number of join-room events handled so far.
RECURSIVE JoinCount(_)
JoinCount(cs) ==
    IF cs = {} THEN 0
    ELSE LET c == CHOOSE x \in cs : TRUE
         IN  Len(handlers[c]) + JoinCount(cs \ {c})

\* Room ids a client can put in a join-room payload: any plain name, or the
\* identity of a connection that has been assigned already.
KnownRoomIds == RoomNames \cup {c \in ConnIds \cap RoomIds : status[c] # "new"}

\* socket.on('join-room', ({ roomId }) => ...)
Join(c, r) ==
    /\ ~threw
    /\ status[c] = "live"
    /\ JoinCount(ConnIds) < MaxJoins
    /\ r \in KnownRoomIds
    /\ rooms' = JoinRoom(rooms, r, c)
    /\ adapter' = [adapter EXCEPT ![r] = @ \cup {c}]
    /\ sent' = <<Emit("user-connected", c, "-", r, Receivers(adapter', r, {c}))>>
    /\ handlers' = [handlers EXCEPT ![c] = Append(@, r)]
    /\ joinLog' = [joinLog EXCEPT ![r] = Append(@, c)]
    /\ last' = [NoEvent EXCEPT !.op = "join", !.conn = c, !.room = r]
    /\ UNCHANGED <<status, threw, http>>

\* Signal listeners with one more listener registered at connection time.
RECURSIVE RunSignalEager(_, _, _, _, _)
RunSignalEager(n, a, t, p, ad) ==
    <<Emit("signal", a, p, t, Receivers(ad, t, {}))>>
        \o (IF n = 0 THEN <<>> ELSE RunSignalEager(n - 1, a, t, p, ad))

\* The 'signal' listeners of socket a, one per handled join-room, each doing
\* io.to(data.target).emit('signal', {sender: socket.id, signal: data.signal}).
RECURSIVE RunSignal(_, _, _, _, _)
RunSignal(n, a, t, p, ad) ==
    IF n = 0 THEN <<>>
    ELSE <<Emit("signal", a, p, t, Receivers(ad, t, {}))>> \o RunSignal(n - 1, a, t, p, ad)

\* A 'signal' event {target: t, signal: p} arriving from connection a.
Signal(a, t, p) ==
    /\ ~threw
    /\ status[a] = "live"
    /\ sent' = RunSignal(Len(handlers[a]), a, t, p, adapter)
    /\ last' = [NoEvent EXCEPT !.op = "signal", !.conn = a, !.target = t, !.signal = p]
    /\ UNCHANGED <<status, rooms, adapter, handlers, joinLog, threw, http>>

\* Disconnect listeners with one more listener registered at connection
\* time, which tells every other socket that c has left.
RECURSIVE RunDisconnectEager(_, _, _, _, _)
RunDisconnectEager(c, hs, rs, out, ad) ==
    IF hs = <<>>
    THEN [rooms |-> rs,
          sent |-> Append(out, Emit("user-disconnected", c, "-", "-",
                                    UNION {ad[r] : r \in DOMAIN ad} \ {c})),
          threw |-> FALSE]
    ELSE IF Head(hs) \notin DOMAIN rs
         THEN [rooms |-> rs, sent |-> out, threw |-> TRUE]
         ELSE RunDisconnectEager(c, Tail(hs), LeaveRoom(rs, Head(hs), c),
                  Append(out, Emit("user-disconnected", c, "-", Head(hs),
                                   Receivers(ad, Head(hs), {c}))),
                  ad)

\* The 'disconnect' listeners of socket c, run in registration order; hs is
\* the list of room ids their closures captured.  A listener that raises
\* ends the emit: the listeners after it do not run.
RECURSIVE RunDisconnect(_, _, _, _, _)
RunDisconnect(c, hs, rs, out, ad) ==
    IF hs = <<>> THEN [rooms |-> rs, sent |-> out, threw |-> FALSE]
    ELSE IF Head(hs) \notin DOMAIN rs
         THEN \* rooms[roomId] is undefined: .filter raises a TypeError
              [rooms |-> rs, sent |-> out, threw |-> TRUE]
         ELSE RunDisconnect(c, Tail(hs), LeaveRoom(rs, Head(hs), c),
                  Append(out, Emit("user-disconnected", c, "-", Head(hs),
                                   Receivers(ad, Head(hs), {c}))),
                  ad)

\* socket.io closes socket c: it leaves every adapter room, then the
\* 'disconnect' event is emitted to the listeners registered by join-room.
LeaveAll(ad, c) == [r \in DOMAIN ad |-> ad[r] \ {c}]

Disconnect(c) ==
    /\ ~threw
    /\ status[c] = "live"
    /\ status' = [status EXCEPT ![c] = "gone"]
    /\ adapter' = LeaveAll(adapter, c)
    /\ LET res == RunDisconnect(c, handlers[c], rooms, <<>>, adapter')
       IN  /\ rooms' = res.rooms
           /\ sent' = res.sent
           /\ threw' = res.threw
    /\ last' = [NoEvent EXCEPT !.op = "disconnect", !.conn = c]
    /\ UNCHANGED <<handlers, joinLog, http>>

Next ==
    \/ \E c \in ConnIds : Connect(c)
    \/ \E c \in ConnIds, r \in RoomIds : Join(c, r)
    \/ \E a \in ConnIds, t \in Targets, p \in Payloads : Signal(a, t, p)
    \/ \E c \in ConnIds : Disconnect(c)

Spec == Init /\ [][Next]_vars

(***************************************************************************)
(* HTTP endpoints: one request, stepped at each await of its handler.      *)
(***************************************************************************)
\* A retry test that lets the retry happen at retries = 0 too.
ShouldRetryOnceMore(st, retries) == st = 429 /\ retries >= 0

\* A retry test that retries whatever the failure was.
ShouldRetryAnyFailure(st, retries) == retries > 0

\* error.response && error.response.status === 429 && retries > 0
ShouldRetry(st, retries) == st # NoResponse /\ st = 429 /\ retries > 0

\* A validation that looks at text only.
RequestValidTextOnly(text, lang) == ~Falsy(text)

\* the negation of: !text || !targetLanguage
RequestValid(text, lang) == ~(Falsy(text) \/ Falsy(lang))

\* A translation request with source and target exchanged.
TranslateCallSwapped(text, detected, target) ==
    Call("translate", text, target, detected)

\* axios.post(translateUrl, {q: text, source: detectedLanguage, target: targetLanguage})
TranslateCall(text, detected, target) ==
    Call("translate", text, detected, target)

\* The 500 answers of the handlers.
SummarizeFailed == Response(500, "-", "-", FALSE, <<>>, "Failed to summarize conversation")

DetectFailed == Response(500, "-", "-", FALSE, <<>>, "Failed to detect language")

TranslationFailed == Response(500, "-", "-", FALSE, <<>>, "Translation failed")

UpstreamFailed ==
    Response(500, "-", "-", FALSE, <<>>,
             "An error occurred during language detection or translation.")

BadRequest ==
    Response(400, "-", "-", FALSE, <<>>, "Both 'text' and 'targetLanguage' are required.")

\* POST /summarize-conversation: the handler runs up to the first await of
\* retryRequest(url, data, headers), which has issued the first request.
PostSummarize(text) ==
    /\ http.pc = "idle"
    /\ http' = [HttpIdle EXCEPT !.route = "summarize", !.pc = "await",
                                !.text = text,
                                !.retries = DefaultRetries, !.delay = DefaultDelay,
                                !.calls = <<Call("openai", text, "-", "-")>>]
    /\ UNCHANGED relayVars

\* The upstream answers the pending request of retryRequest with status st;
\* a 200 carries a completion whose content is content when the body is
\* well formed (otherwise reading choices[0] raises inside the try).
SummarizeReturns(st, wellFormed, content) ==
    /\ http.route = "summarize"
    /\ http.pc = "await"
    /\ LET h == [http EXCEPT !.outcomes = Append(@, st)]
       IN  IF st = 200
           THEN http' = [h EXCEPT !.pc = "done",
                                  !.body = IF wellFormed THEN "fine" ELSE "broken",
                                  !.replies = Append(@,
                                      IF wellFormed
                                      THEN Response(200, "-", "-", FALSE, Trim(content), "-")
                                      ELSE SummarizeFailed)]
           ELSE IF ShouldRetry(st, http.retries)
                THEN http' = [h EXCEPT !.pc = "wait"]
                ELSE http' = [h EXCEPT !.pc = "done",
                                       !.replies = Append(@, SummarizeFailed)]
    /\ UNCHANGED relayVars

\* setTimeout(resolve, delay) fires: retryRequest(.., retries - 1, delay * 2)
\* issues the next request.
TimerFires ==
    /\ http.route = "summarize"
    /\ http.pc = "wait"
    /\ http' = [http EXCEPT !.pc = "await",
                            !.waits = Append(@, http.delay),
                            !.retries = @ - 1,
                            !.delay = @ * 2,
                            !.calls = Append(@, Call("openai", http.text, "-", "-"))]
    /\ UNCHANGED relayVars

\* POST /detect-and-translate: validation, then the detection request.
PostTranslate(text, lang) ==
    /\ http.pc = "idle"
    /\ IF RequestValid(text, lang)
       THEN http' = [HttpIdle EXCEPT !.route = "translate", !.pc = "detect",
                                     !.text = text, !.lang = lang,
                                     !.calls = <<Call("detect", text, "-", "-")>>]
       ELSE http' = [HttpIdle EXCEPT !.route = "translate", !.pc = "done",
                                     !.text = text, !.lang = lang,
                                     !.replies = <<BadRequest>>]
    /\ UNCHANGED relayVars

\* The detection request returns with status st.  shape tells what a 200
\* body holds: "fine" (detections[0][0].language = language), "missing"
\* (no detections field) or "broken" (reading the body raises a TypeError).
DetectReturns(st, shape, language) ==
    /\ http.route = "translate"
    /\ http.pc = "detect"
    /\ LET h == [http EXCEPT !.outcomes = Append(@, st)]
       IN  IF st # 200 \/ shape = "broken"
           THEN http' = [h EXCEPT !.pc = "done", !.replies = Append(@, UpstreamFailed)]
           ELSE IF shape = "missing" \/ Falsy(language)
           THEN http' = [h EXCEPT !.pc = "done", !.replies = Append(@, DetectFailed)]
           ELSE IF language = http.lang
           THEN http' = [h EXCEPT !.pc = "done", !.detected = language,
                                  !.replies = Append(@,
                                      Response(200, language, http.text, TRUE, <<>>, "-"))]
           ELSE http' = [h EXCEPT !.pc = "translate", !.detected = language,
                                  !.calls = Append(@,
                                      TranslateCall(http.text, language, http.lang))]
    /\ UNCHANGED relayVars

\* The translation request returns with status st; shape as above, for the
\* fields data.translations and translations[0].translatedText.
TranslateReturns(st, shape, translated) ==
    /\ http.route = "translate"
    /\ http.pc = "translate"
    /\ LET h == [http EXCEPT !.outcomes = Append(@, st), !.pc = "done"]
       IN  IF st # 200 \/ shape = "broken"
           THEN http' = [h EXCEPT !.replies = Append(@, UpstreamFailed)]
           ELSE IF shape = "missing"
           THEN http' = [h EXCEPT !.replies = Append(@, TranslationFailed)]
           ELSE http' = [h EXCEPT !.replies = Append(@,
                             Response(200, http.detected, translated, FALSE, <<>>, "-"))]
    /\ UNCHANGED relayVars

Shapes == {"fine", "missing", "broken"}

\* Every pending upstream request eventually returns.
UpstreamReturns ==
    \/ \E st \in UpstreamStatuses, w \in BOOLEAN, c \in Contents : SummarizeReturns(st, w, c)
    \/ \E st \in UpstreamStatuses, sh \in Shapes, l \in Languages : DetectReturns(st, sh, l)
    \/ \E st \in UpstreamStatuses, sh \in Shapes, t \in Texts : TranslateReturns(st, sh, t)

HttpNext ==
    \/ \E t \in Texts : PostSummarize(t)
    \/ \E t \in Texts, l \in Languages : PostTranslate(t, l)
    \/ \E st \in UpstreamStatuses, w \in BOOLEAN, c \in Contents : SummarizeReturns(st, w, c)
    \/ \E st \in UpstreamStatuses, sh \in Shapes, l \in Languages : DetectReturns(st, sh, l)
    \/ \E st \in UpstreamStatuses, sh \in Shapes, t \in Texts : TranslateReturns(st, sh, t)
    \/ TimerFires

\* The event loop runs every timer that is due, and (the assumption of the
\* termination claim) every upstream request returns.
HttpSpec ==
    Init /\ [][HttpNext]_vars /\ WF_vars(TimerFires) /\ WF_vars(UpstreamReturns)

TypeOK ==
    /\ status \in [ConnIds -> {"new", "live", "gone"}]
    /\ DOMAIN rooms \subseteq RoomIds
    /\ \A r \in DOMAIN rooms : \A i \in DOMAIN rooms[r] : rooms[r][i] \in ConnIds
    /\ adapter \in [AdapterRooms -> SUBSET ConnIds]
    /\ threw \in BOOLEAN

(***************************************************************************)
(* Vocabulary of the properties.                                           *)
(***************************************************************************)
Members(list) == {list[i] : i \in DOMAIN list}

NoDup(list) == \A i, j \in DOMAIN list : list[i] = list[j] => i = j

\* The members of room r in table rs; none when r is not a key.
MembersOf(rs, r) == IF r \in DOMAIN rs THEN Members(rs[r]) ELSE {}

\* Number of emits of event ev, in the list of emits out, that reach d.
Deliveries(out, ev, d) ==
    Cardinality({i \in DOMAIN out : out[i].ev = ev /\ d \in out[i].to})

\* The same, counting only the emits addressed to adapter room r.
DeliveriesVia(out, ev, r, d) ==
    Cardinality({i \in DOMAIN out : out[i].ev = ev /\ out[i].via = r /\ d \in out[i].to})

(***************************************************************************)
(* C1: in every reachable state no key of the Room Table maps to an empty  *)
(* member list.                                                            *)
(***************************************************************************)
C1_NoEmptyRoom ==
    \A r \in DOMAIN rooms : rooms[r] # <<>>

\* A disconnect has just emptied a room and the room is gone from the table,
\* while another room is still there.
C1_Witness ==
    /\ last.op = "disconnect"
    /\ \E i \in DOMAIN sent : sent[i].via \notin DOMAIN rooms
    /\ DOMAIN rooms # {}

(***************************************************************************)
(* C2: the user-connected notification of a join-room(R) by c is received  *)
(* by exactly the connections that were in R's member list just before the *)
(* join, c excepted: not by c, not by a non-member, by nobody when R did   *)
(* not exist.                                                              *)
(***************************************************************************)
C2_JoinNotifiesPriorMembers ==
    [][last'.op = "join" =>
          \A d \in ConnIds :
              (Deliveries(sent', "user-connected", d) > 0)
                  <=> (d \in MembersOf(rooms, last'.room) \ {last'.conn})]_vars

(***************************************************************************)
(* C3: a signal event {target: b} is delivered to connection b and to no   *)
(* other connection, whatever rooms have been joined and whatever the      *)
(* target value is.                                                        *)
(***************************************************************************)
C3_SignalOnlyToTarget ==
    last.op = "signal" =>
        \A i \in DOMAIN sent : sent[i].to \subseteq {last.target}

(***************************************************************************)
(* C4: one signal event from a connection a that has joined a room (any    *)
(* number of times), addressed to a live connection b, gives exactly one   *)
(* delivery to b, of {sender: a, signal: payload}.                         *)
(***************************************************************************)
C4_ExactlyOneDelivery ==
    (/\ last.op = "signal"
     /\ handlers[last.conn] # <<>>
     /\ last.target \in ConnIds
     /\ status[last.target] = "live")
    => /\ Deliveries(sent, "signal", last.target) = 1
       /\ \A i \in DOMAIN sent :
              sent[i].id = last.conn /\ sent[i].signal = last.signal

(***************************************************************************)
(* C5: no sequence of join-room, signal and disconnect events makes a      *)
(* handler raise an exception.                                             *)
(***************************************************************************)
C5_NoHandlerThrows ==
    ~threw

(***************************************************************************)
(* C6: when c disconnects, for every room c is a member of, every          *)
(* remaining member receives exactly one user-disconnected notification    *)
(* for that room carrying c's identity, and c receives none.               *)
(***************************************************************************)
C6_LeaveNotifiesOnce ==
    [][last'.op = "disconnect" =>
          /\ Deliveries(sent', "user-disconnected", last'.conn) = 0
          /\ \A i \in DOMAIN sent' : sent'[i].id = last'.conn
          /\ \A r \in DOMAIN rooms :
                 last'.conn \in Members(rooms[r]) =>
                     \A d \in Members(rooms[r]) \ {last'.conn} :
                         DeliveriesVia(sent', "user-disconnected", r, d) = 1]_vars

(***************************************************************************)
(* C7: every identity stored in a room's member list belongs to a          *)
(* connection that is still live.                                          *)
(***************************************************************************)
C7_MembersAreLive ==
    \A r \in DOMAIN rooms : \A c \in Members(rooms[r]) : status[c] = "live"

(***************************************************************************)
(* C8: no connection identity is in the member lists of two distinct       *)
(* rooms.                                                                  *)
(***************************************************************************)
C8_AtMostOneRoom ==
    \A r1, r2 \in DOMAIN rooms :
        r1 # r2 => Members(rooms[r1]) \cap Members(rooms[r2]) = {}

(***************************************************************************)
(* C9: after the disconnect of a member c of room R, R is no longer a key  *)
(* when c was its only member; otherwise R is still a key and its list is  *)
(* the old list with c taken out, the others in their old order.           *)
(***************************************************************************)
C9_LeaveResult ==
    [][last'.op = "disconnect" =>
          \A r \in DOMAIN rooms :
              last'.conn \in Members(rooms[r]) =>
                  IF Members(rooms[r]) = {last'.conn}
                  THEN r \notin DOMAIN rooms'
                  ELSE /\ r \in DOMAIN rooms'
                       /\ last'.conn \notin Members(rooms'[r])
                       /\ rooms'[r] = Without(rooms[r], last'.conn)]_vars

(***************************************************************************)
(* C10: when the connections that issued join-room(R) are distinct, each   *)
(* issued it once and none has disconnected, R's member list is exactly    *)
(* those connections in the order of their joins.                          *)
(***************************************************************************)
C10_JoinOrder ==
    \A r \in RoomIds :
        (/\ joinLog[r] # <<>>
         /\ NoDup(joinLog[r])
         /\ \A c \in Members(joinLog[r]) : status[c] = "live")
        => r \in DOMAIN rooms /\ rooms[r] = joinLog[r]

\* Three distinct live connections have joined one room, one after another.
C10_Witness ==
    \E r \in RoomIds :
        /\ Len(joinLog[r]) = 3
        /\ NoDup(joinLog[r])
        /\ \A c \in Members(joinLog[r]) : status[c] = "live"
        /\ last.op = "join" /\ last.room = r

\* Number of entries of list equal to x.
Count(list, x) == Cardinality({i \in DOMAIN list : list[i] = x})

\* The entry of room r in table rs: its list, or <<>> when r is not a key
\* (no key ever maps to the empty list, see C1).
Entry(rs, r) == IF r \in DOMAIN rs THEN rs[r] ELSE <<>>

(***************************************************************************)
(* C11: a signal whose target does not identify a live connection is       *)
(* delivered to no connection, raises no error and leaves the Room Table   *)
(* unchanged.                                                              *)
(***************************************************************************)
C11_DeadTargetDropped ==
    [][(/\ last'.op = "signal"
        /\ ~(last'.target \in ConnIds /\ status[last'.target] = "live"))
       => /\ \A i \in DOMAIN sent' : sent'[i].to = {}
          /\ ~threw'
          /\ rooms' = rooms]_vars

(***************************************************************************)
(* C12: the disconnect of a connection that never issued join-room leaves  *)
(* the Room Table as it was and sends no user-disconnected notification.   *)
(***************************************************************************)
C12_DisconnectWithoutJoin ==
    [][(last'.op = "disconnect" /\ handlers[last'.conn] = <<>>)
       => /\ rooms' = rooms
          /\ \A d \in ConnIds : Deliveries(sent', "user-disconnected", d) = 0
          /\ sent' = <<>>]_vars

\* A connection that never joined has disconnected while a room with a live
\* member exists.
C12_Witness ==
    /\ last.op = "disconnect"
    /\ handlers[last.conn] = <<>>
    /\ \E r \in DOMAIN rooms : \E c \in Members(rooms[r]) : status[c] = "live"

(***************************************************************************)
(* C17: after k join-room(R) events of a live connection c, R's member     *)
(* list holds c exactly k times, and each of these joins sends one         *)
(* user-connected notification carrying c to every other member of R.      *)
(***************************************************************************)
C17_DuplicateJoinAppends ==
    /\ \A c \in ConnIds, r \in RoomIds :
           status[c] = "live" => Count(Entry(rooms, r), c) = Count(handlers[c], r)
    /\ last.op = "join" =>
           /\ \A i \in DOMAIN sent :
                  sent[i].ev = "user-connected" /\ sent[i].id = last.conn
           /\ \A d \in Members(Entry(rooms, last.room)) \ {last.conn} :
                  Deliveries(sent, "user-connected", d) = 1

\* A connection has just joined, for the second time, a room that has
\* another member.
C17_Witness ==
    /\ last.op = "join"
    /\ Count(Entry(rooms, last.room), last.conn) = 2
    /\ \E d \in Members(Entry(rooms, last.room)) \ {last.conn} :
           Deliveries(sent, "user-connected", d) = 1

(***************************************************************************)
(* C18: a signal event of a live connection that has issued no join-room   *)
(* yet is delivered to nobody, also when its target is live; a signal is   *)
(* forwarded only when its sender has joined before.                       *)
(***************************************************************************)
C18_NoForwardBeforeJoin ==
    last.op = "signal" =>
        /\ handlers[last.conn] = <<>> => sent = <<>>
        /\ sent # <<>> => handlers[last.conn] # <<>>

\* A connection that never joined has signalled a live connection.
C18_Witness ==
    /\ last.op = "signal"
    /\ handlers[last.conn] = <<>>
    /\ last.target \in ConnIds
    /\ last.target # last.conn
    /\ status[last.target] = "live"

(***************************************************************************)
(* C19: a join-room(R) changes only R's entry of the Room Table, a signal  *)
(* changes none, and the disconnect of c changes only entries of rooms c   *)
(* had joined; every other member list stays as it was.                    *)
(***************************************************************************)
C19_RoomTableFrame ==
    [][\A r \in RoomIds :
           Entry(rooms', r) # Entry(rooms, r) =>
               \/ last'.op = "join" /\ last'.room = r
               \/ last'.op = "disconnect" /\ r \in Members(handlers[last'.conn])]_vars

\* A member has disconnected and emptied its room while a room it never
\* joined is still in the table.
C19_Witness ==
    /\ last.op = "disconnect"
    /\ handlers[last.conn] # <<>>
    /\ \A r \in Members(handlers[last.conn]) : r \notin DOMAIN rooms
    /\ \E r \in DOMAIN rooms : r \notin Members(handlers[last.conn])

\* The calls made so far to endpoint url.
CallsTo(url) == {i \in DOMAIN http.calls : http.calls[i].url = url}

(***************************************************************************)
(* C13: retryRequest with its defaults issues at most 4 requests, a        *)
(* further one only after a 429; the waits before the retries are 1000,    *)
(* 2000 and 4000 ms; four 429s are answered by a 500; and, every upstream  *)
(* request returning, the call terminates.                                 *)
(***************************************************************************)
C13_RetryBounded ==
    /\ [](http.route = "summarize" =>
            /\ Len(http.calls) <= 4
            /\ \A i \in DOMAIN http.outcomes :
                   i < Len(http.calls) => http.outcomes[i] = 429
            /\ Len(http.waits) <= 3
            /\ http.waits = SubSeq(<<1000, 2000, 4000>>, 1, Len(http.waits))
            /\ http.pc \in {"await", "done"} => Len(http.waits) = Len(http.calls) - 1
            /\ http.outcomes = <<429, 429, 429, 429>> =>
                   /\ http.pc = "done"
                   /\ Len(http.replies) = 1
                   /\ http.replies[1].status = 500)
    /\ (http.route = "summarize") ~> (http.pc = "done")

\* Four requests were answered 429 and the endpoint has answered 500 after
\* waiting 1000, 2000 and 4000 ms.
C13_Witness ==
    /\ http.route = "summarize"
    /\ http.outcomes = <<429, 429, 429, 429>>
    /\ http.waits = <<1000, 2000, 4000>>
    /\ Len(http.calls) = 4
    /\ http.replies # <<>> /\ http.replies[1].status = 500

(***************************************************************************)
(* C14: retryRequest returns the first successful response and requests    *)
(* nothing after it (429, 429, success gives the 200 summary after waits   *)
(* of 1000 and 2000 ms); a failure other than 429 is propagated at once,   *)
(* with no retry and no wait.                                              *)
(***************************************************************************)
C14_FirstSuccessOrFailureEnds ==
    http.route = "summarize" =>
        \A i \in DOMAIN http.outcomes :
            /\ http.outcomes[i] # 429 =>
                   /\ i = Len(http.outcomes)
                   /\ Len(http.calls) = i
                   /\ Len(http.waits) = i - 1
                   /\ http.pc = "done"
                   /\ Len(http.replies) = 1
            /\ http.outcomes[i] \notin {200, 429} => http.replies[1].status = 500
            /\ http.outcomes[i] = 200 =>
                   http.replies[1].status = (IF http.body = "fine" THEN 200 ELSE 500)
            /\ (http.outcomes = <<429, 429, 200>> /\ http.body = "fine") =>
                   /\ http.waits = <<1000, 2000>>
                   /\ http.replies[1].status = 200
                   /\ http.replies[1].summary = <<"o", "k">>

\* 429, 429, then a success: the 200 summary has been sent.
C14_Witness ==
    /\ http.route = "summarize"
    /\ http.outcomes = <<429, 429, 200>>
    /\ http.waits = <<1000, 2000>>
    /\ http.replies # <<>> /\ http.replies[1].status = 200

(***************************************************************************)
(* C15: /detect-and-translate with text or targetLanguage missing or empty *)
(* answers 400 and calls no upstream; every request makes at most one      *)
(* detection call and at most one translation call and sends exactly one   *)
(* response.                                                               *)
(***************************************************************************)
C15_ValidationAndSingleResponse ==
    http.route = "translate" =>
        /\ (http.text \in {Undefined, ""} \/ http.lang \in {Undefined, ""}) =>
               /\ http.calls = <<>>
               /\ http.pc = "done"
               /\ http.replies = <<BadRequest>>
        /\ Cardinality(CallsTo("detect")) <= 1
        /\ Cardinality(CallsTo("translate")) <= 1
        /\ Len(http.replies) = (IF http.pc = "done" THEN 1 ELSE 0)

\* A request with a text but an empty target language was answered 400.
C15_Witness ==
    /\ http.route = "translate"
    /\ http.text = "Hola"
    /\ http.lang = ""
    /\ http.replies # <<>> /\ http.replies[1].status = 400
    /\ http.calls = <<>>

(***************************************************************************)
(* C16: when the detected language equals targetLanguage the answer is 200 *)
(* with translatedText equal to the input text plus a message, and the     *)
(* translation endpoint is not called; when they differ it is called       *)
(* exactly once, with source = detected language, target = targetLanguage. *)
(***************************************************************************)
C16_SkipOrTranslate ==
    (http.route = "translate" /\ http.detected # "-") =>
        IF http.detected = http.lang
        THEN /\ CallsTo("translate") = {}
             /\ http.pc = "done"
             /\ Len(http.replies) = 1
             /\ http.replies[1].status = 200
             /\ http.replies[1].detectedLanguage = http.detected
             /\ http.replies[1].translatedText = http.text
             /\ http.replies[1].message
        ELSE /\ Cardinality(CallsTo("translate")) = 1
             /\ \A i \in CallsTo("translate") :
                    /\ http.calls[i].q = http.text
                    /\ http.calls[i].source = http.detected
                    /\ http.calls[i].target = http.lang

\* "Hola" to "es", detected as "es": answered without a translation call.
C16_Witness ==
    /\ http.route = "translate"
    /\ http.text = "Hola" /\ http.lang = "es" /\ http.detected = "es"
    /\ http.pc = "done"
    /\ CallsTo("translate") = {}
    /\ http.replies[1].translatedText = "Hola"

====
